---- MODULE Spec2Model ----
(***************************************************************************)
(* Model of imessage-query-server.py: text recovery from a message row,    *)
(* the tick-to-instant conversion of the SQL query, attachment copying and *)
(* the two transcript tools.                                               *)
(*                                                                         *)
(* Bytes are integers 0..255 and a bytes object is a sequence of them.     *)
(* A Python str is a sequence of code points.  An optional value (None or  *)
(* a value) is a record [some, v].                                         *)
(***************************************************************************)
EXTENDS Integers, Sequences, FiniteSets, TLC

VARIABLES
    store,      \* the message rows of chat.db (never written by the server)
    env,        \* outside the server: the attachment files, the converter, the time zone
    now,        \* the clock: seconds since 1970-01-01 UTC read by datetime.now(timezone.utc)
    _db,        \* DatabaseContext._db: NoConnection or the imessagedb.DB object held
    prev,       \* the tool call before the latest one
    call,       \* the latest tool call with its result
    arg,        \* arguments of the pure function under study
    ret         \* its outcome

vars == <<store, env, now, _db, prev, call, arg, ret>>

----------------------------------------------------------------------------
(* Optional values *)

None == [some |-> FALSE, v |-> <<>>]

Some(x) == [some |-> TRUE, v |-> x]

\* Python truthiness of an optional str / bytes: not None and not empty
Truthy(x) == x.some /\ x.v # <<>>

----------------------------------------------------------------------------
(* The store connection *)

\* DatabaseContext._db before the first open (None); the imessagedb.DB
\* objects are numbered in the order they are constructed
NoConnection == 0

\* imessagedb.DB(str(self.db_path)): an object that did not exist before
NewConnection(db) == db + 1

\* a plausible slip: every call constructs a connection of its own
get_connection_reopens(db) == NewConnection(db)

\* DatabaseContext.get_connection: the object held, constructed when none is held
get_connection(db) == IF db = NoConnection THEN NewConnection(db) ELSE db

----------------------------------------------------------------------------
(* bytes.split, slicing and UTF-8 decoding *)

\* least index i >= from with b[i .. i+Len(sep)-1] = sep, or 0
Find(b, sep, from) ==
    LET hits == {i \in from..(Len(b) - Len(sep) + 1) : SubSeq(b, i, i + Len(sep) - 1) = sep}
    IN  IF hits = {} THEN 0 ELSE CHOOSE i \in hits : \A j \in hits : i <= j

RECURSIVE Split(_, _)
\* bytes.split(sep): the parts between the non-overlapping occurrences of sep
Split(b, sep) ==
    LET i == Find(b, sep, 1)
    IN  IF i = 0 THEN <<b>>
        ELSE <<SubSeq(b, 1, i - 1)>> \o Split(SubSeq(b, i + Len(sep), Len(b)), sep)

\* sep in b
Contains(b, sep) == Find(b, sep, 1) # 0

NSNumber == <<78, 83, 78, 117, 109, 98, 101, 114>>

NSString == <<78, 83, 83, 116, 114, 105, 110, 103>>

NSDictionary == <<78, 83, 68, 105, 99, 116, 105, 111, 110, 97, 114, 121>>

PrefixLen == 6

SuffixLen == 12

\* text_data[6:-12]
Trim(b) == SubSeq(b, PrefixLen + 1, Len(b) - SuffixLen)

\* U+FFFD, what errors='replace' puts for an undecodable byte
ReplacementChar == 65533

RECURSIVE Utf8Decode(_)
\* bytes.decode('utf-8', errors='replace') for one- and two-byte sequences;
\* the inputs used contain no lead byte of a three- or four-byte sequence
Utf8Decode(b) ==
    IF b = <<>> THEN <<>>
    ELSE LET c == Head(b)
         IN  IF c < 128 THEN <<c>> \o Utf8Decode(Tail(b))
             ELSE IF c \in 194..223 /\ Len(b) >= 2 /\ b[2] \in 128..191
                  THEN <<(c - 192) * 64 + (b[2] - 128)>> \o Utf8Decode(SubSeq(b, 3, Len(b)))
                  ELSE <<ReplacementChar>> \o Utf8Decode(Tail(b))

----------------------------------------------------------------------------
(* extract_message_text *)

\* the element [1] of a split, guarded by "sep in text_data"
AfterMarker(b, sep) == IF Contains(b, sep) THEN Split(b, sep)[2] ELSE b

\* the element [0] of a split, guarded by "sep in text_data"
BeforeMarker(b, sep) == IF Contains(b, sep) THEN Split(b, sep)[1] ELSE b

\* the try block over attributed_body: raised, or the str returned
DecodeAttributedBody(attributed_body) ==
    LET d0 == Split(attributed_body, NSNumber)[1]
        s1 == Split(d0, NSString)
    IN  IF Len(s1) < 2 THEN [raised |-> TRUE, v |-> <<>>]
        ELSE LET d2 == Split(s1[2], NSDictionary)[1]
                 d3 == Trim(d2)
                 d4 == AfterMarker(d3, <<1>>)
                 d5 == AfterMarker(d4, <<2>>)
                 d6 == AfterMarker(d5, <<0>>)
                 d7 == BeforeMarker(d6, <<134>>)
             IN  [raised |-> FALSE, v |-> Utf8Decode(d7)]

\* plistlib.loads and the walk plist['ec']['0'][-1]['t']: raised, found or not found
LatestEdit(message_summary_info) ==
    LET p == message_summary_info
    IN  IF ~p.parses THEN [raised |-> TRUE, found |-> FALSE, t |-> None]
        ELSE IF ~(p.hasEc /\ p.hasZero) THEN [raised |-> FALSE, found |-> FALSE, t |-> None]
        ELSE IF p.edits = <<>> THEN [raised |-> TRUE, found |-> FALSE, t |-> None]
        ELSE LET latest_edit == p.edits[Len(p.edits)]
             IN  IF latest_edit.some
                 THEN [raised |-> FALSE, found |-> TRUE, t |-> Some(latest_edit.v)]
                 ELSE [raised |-> FALSE, found |-> FALSE, t |-> None]

\* message_summary_info is None, b'' or non-empty bytes; non-empty bytes are
\* described by what plistlib.loads makes of them
NoPlist == [parses |-> FALSE, hasEc |-> FALSE, hasZero |-> FALSE, edits |-> <<>>]

NoSummary == [some |-> FALSE, empty |-> TRUE, v |-> NoPlist]

EmptySummary == [some |-> TRUE, empty |-> TRUE, v |-> NoPlist]

SummaryBytes(p) == [some |-> TRUE, empty |-> FALSE, v |-> p]

\* a plausible slip: the rich-text blob is tried before the plain text column
ExtractRunBlobFirst(text, attributed_body, message_summary_info) ==
    IF Truthy(attributed_body) /\ ~DecodeAttributedBody(attributed_body.v).raised
    THEN [ret |-> Some(DecodeAttributedBody(attributed_body.v).v), raised |-> FALSE,
          ran |-> {"attributed_body"}]
    ELSE IF Truthy(text) THEN [ret |-> text, raised |-> FALSE, ran |-> {}]
    ELSE [ret |-> None, raised |-> FALSE, ran |-> {}]

RECURSIVE ExtractRun(_, _, _)
\* one run of extract_message_text: the value returned, whether an exception
\* escaped, and which decoders ran
ExtractRun(text, attributed_body, message_summary_info) ==
    IF Truthy(text) THEN [ret |-> text, raised |-> FALSE, ran |-> {}]
    ELSE LET ab  == IF Truthy(attributed_body)
                    THEN DecodeAttributedBody(attributed_body.v)
                    ELSE [raised |-> TRUE, v |-> <<>>]
             ranA == IF Truthy(attributed_body) THEN {"attributed_body"} ELSE {}
         IN  IF Truthy(attributed_body) /\ ~ab.raised
             THEN [ret |-> Some(ab.v), raised |-> FALSE, ran |-> ranA]
             ELSE IF message_summary_info.some /\ ~message_summary_info.empty
                  THEN LET le   == LatestEdit(message_summary_info.v)
                           ranS == ranA \cup {"message_summary_info"}
                       IN  IF le.found
                           THEN LET r == ExtractRun(None, le.t, NoSummary)
                                IN  [ret |-> r.ret, raised |-> r.raised, ran |-> ranS]
                           ELSE [ret |-> None, raised |-> FALSE, ran |-> ranS]
                  ELSE [ret |-> None, raised |-> FALSE, ran |-> ranA]

extract_message_text(text, attributed_body, message_summary_info) ==
    ExtractRun(text, attributed_body, message_summary_info).ret

----------------------------------------------------------------------------
(* Inputs of extract_message_text *)

Hello == <<104, 101, 108, 108, 111>>

\* the six bytes between the class name and the text in a serialized string
StreamHead == <<1, 148, 132, 1, 43, 2>>

\* the twelve bytes between the text and the next class name
StreamTail == <<134, 132, 2, 105, 73, 0, 11, 146, 132, 132, 132, 12>>

Payloads ==
    { <<>>, <<104, 105>>, <<104, 1, 105>>, <<195, 169>>, <<255>>,
      <<104, 134, 105>>, <<32>>, <<104, 0>> }

Blob(hasStr, head, payload, tail, numFirst) ==
    (IF numFirst THEN NSNumber ELSE <<>>) \o <<4, 11>>
        \o (IF hasStr THEN NSString ELSE <<>>) \o head \o payload \o tail
        \o NSDictionary \o <<105>> \o NSNumber

BlobInputs ==
    { None, Some(<<>>), Some(<<1, 2, 3>>) } \cup
    { Some(Blob(hasStr, head, payload, tail, numFirst)) :
        hasStr \in BOOLEAN, head \in {StreamHead, <<>>}, payload \in Payloads,
        tail \in {StreamTail, <<>>}, numFirst \in BOOLEAN }

TextInputs == { None, Some(<<>>), Some(Hello) }

EditBlob == Blob(TRUE, StreamHead, <<101, 100>>, StreamTail, FALSE)

Edit(t) == [some |-> TRUE, v |-> t]

NoEditText == [some |-> FALSE, v |-> <<>>]

SummaryInputs ==
    { NoSummary, EmptySummary, SummaryBytes(NoPlist),
      SummaryBytes([parses |-> TRUE, hasEc |-> FALSE, hasZero |-> FALSE, edits |-> <<>>]),
      SummaryBytes([parses |-> TRUE, hasEc |-> TRUE, hasZero |-> FALSE, edits |-> <<>>]),
      SummaryBytes([parses |-> TRUE, hasEc |-> TRUE, hasZero |-> TRUE, edits |-> <<>>]),
      SummaryBytes([parses |-> TRUE, hasEc |-> TRUE, hasZero |-> TRUE, edits |-> <<NoEditText>>]),
      SummaryBytes([parses |-> TRUE, hasEc |-> TRUE, hasZero |-> TRUE,
                    edits |-> <<Edit(<<1, 2, 3>>), Edit(EditBlob)>>]),
      SummaryBytes([parses |-> TRUE, hasEc |-> TRUE, hasZero |-> TRUE,
                    edits |-> <<Edit(EditBlob), Edit(<<1, 2, 3>>)>>]) }

Idle == [fn |-> "none"]

NoEnv == [files |-> <<>>, tz |-> 0]

----------------------------------------------------------------------------
(* Specification of the text resolution: the inputs are drawn at the start *)
(* and extract_message_text is applied to them.                            *)

InitText ==
    /\ arg \in [text : TextInputs, attributed_body : BlobInputs,
                 message_summary_info : SummaryInputs]
    /\ ret = Idle
    /\ store = <<>>
    /\ env = NoEnv
    /\ now = 0
    /\ _db = NoConnection
    /\ prev = Idle
    /\ call = Idle

Extract ==
    /\ ret = Idle
    /\ ret' = [fn |-> "extract_message_text",
               out |-> ExtractRun(arg.text, arg.attributed_body, arg.message_summary_info)]
    /\ UNCHANGED <<store, env, now, _db, prev, call, arg>>

NextText == Extract

SpecText == InitText /\ [][NextText]_vars

Extracted == ret.fn = "extract_message_text"

\* characters a cleaned text may not hold: control characters other than
\* newline, the replacement character and the object placeholder
Unclean(c) == (c < 32 /\ c # 10) \/ c = 127 \/ c = ReplacementChar \/ c = 65532

IsSpace(c) == c \in {9, 10, 11, 12, 13, 32}

Cleaned(s) ==
    /\ \A i \in 1..Len(s) : ~Unclean(s[i])
    /\ s # <<>> => ~IsSpace(s[1]) /\ ~IsSpace(s[Len(s)])

\* C2: whenever the plain text column is present and non-empty, the result is
\* that plain text verbatim, whatever the two blobs hold, and neither the
\* rich-text blob nor the edit-history blob is decoded.
C2_PlainTextVerbatim ==
    (Extracted /\ arg.text.some /\ arg.text.v # <<>>) =>
        /\ ret.out.ret = arg.text
        /\ ~ret.out.raised
        /\ ret.out.ran = {}

\* C2 witness: plain text "hello" was resolved next to a malformed rich-text
\* blob and an unparseable edit-history blob.
C2_Witness ==
    /\ Extracted
    /\ arg.text = Some(Hello)
    /\ arg.attributed_body = Some(<<1, 2, 3>>)
    /\ arg.message_summary_info = SummaryBytes(NoPlist)
    /\ ret.out.ret = Some(Hello)

\* C3 (as claimed): with empty plain text, a rich-text blob and no
\* edit-history blob, the call never raises and returns None or a non-empty
\* cleaned string, never the empty string.
C3_RichTextNeverEmpty ==
    (Extracted /\ ~Truthy(arg.text) /\ arg.attributed_body.some
               /\ arg.message_summary_info = NoSummary) =>
        /\ ~ret.out.raised
        /\ ret.out.ret = None \/ (ret.out.ret.v # <<>> /\ Cleaned(ret.out.ret.v))

\* C10 (as claimed): with empty plain text and a rich-text blob present, the
\* result is the rich-text decoder's outcome alone (its text, or None when
\* decoding fails) and the edit-history decoder is not consulted.
C10_StrictPriority ==
    (Extracted /\ ~Truthy(arg.text) /\ Truthy(arg.attributed_body)) =>
        /\ "message_summary_info" \notin ret.out.ran
        /\ ret.out.ret = IF DecodeAttributedBody(arg.attributed_body.v).raised
                          THEN None
                          ELSE Some(DecodeAttributedBody(arg.attributed_body.v).v)

----------------------------------------------------------------------------
(* Time: the store's ticks, SQLite's datetime(..., 'unixepoch') and dates *)

\* m.date counts nanoseconds since 2001-01-01 UTC and exceeds the integer
\* range of the checker, so a tick count is held as the pair
\* [s, n] = s * TicksPerSecond + n with 0 <= n < TicksPerSecond.
TicksPerSecond == 1000000000

\* strftime('%s', '2001-01-01')
Epoch2001 == 978307200

SecondsPerDay == 24 * 3600

TicksLess(a, b) == a.s < b.s \/ (a.s = b.s /\ a.n < b.n)

\* a plausible slip: % instead of / in the SQL expression
UnixSecondsModulo(ticks) == (ticks.n % TicksPerSecond) + Epoch2001

\* m.date/1000000000 + strftime('%s', '2001-01-01'): SQLite integer division
UnixSeconds(ticks) == (ticks.s + (ticks.n \div TicksPerSecond)) + Epoch2001

\* the proleptic Gregorian date <<year, month, day>> of a day number counted
\* from 1970-01-01
CivilFromDays(days) ==
    LET z   == days + 719468
        era == z \div 146097
        doe == z - era * 146097
        yoe == (doe - (doe \div 1460) + (doe \div 36524) - (doe \div 146096)) \div 365
        doy == doe - ((365 * yoe) + (yoe \div 4) - (yoe \div 100))
        mp  == ((5 * doy) + 2) \div 153
        d   == doy - (((153 * mp) + 2) \div 5) + 1
        m   == IF mp < 10 THEN mp + 3 ELSE mp - 9
        y   == yoe + (era * 400) + (IF m <= 2 THEN 1 ELSE 0)
    IN  <<y, m, d>>

\* a UTC instant with second resolution, as "%Y-%m-%d %H:%M:%S" spells it
DateTime(unix) == [date |-> CivilFromDays(unix \div SecondsPerDay), sod |-> unix % SecondsPerDay]

\* datetime(m.date/1000000000 + strftime('%s', '2001-01-01'), 'unixepoch'),
\* parsed back by strptime(...).replace(tzinfo=timezone.utc)
ticks_to_utc(ticks) == DateTime(UnixSeconds(ticks))

\* the day number counted from 1970-01-01 of a date <<year, month, day>>
DaysFromCivil(date) ==
    LET y   == IF date[2] <= 2 THEN date[1] - 1 ELSE date[1]
        era == y \div 400
        yoe == y - era * 400
        mp  == IF date[2] > 2 THEN date[2] - 3 ELSE date[2] + 9
        doy == (((153 * mp) + 2) \div 5) + date[3] - 1
        doe == (yoe * 365) + (yoe \div 4) - (yoe \div 100) + doy
    IN  (era * 146097) + doe - 719468

\* the seconds since 1970-01-01 of a date and time of day
UnixOf(dt) == (DaysFromCivil(dt.date) * SecondsPerDay) + dt.sod

\* msg.date of imessagedb: the instant rendered in the local time zone
LocalDateTime(ticks, tz) == DateTime(UnixSeconds(ticks) + tz)

\* datetime.strptime(msg.date, ...).astimezone(timezone.utc): the naive local
\* time is taken to be in the system time zone and moved to UTC
AsTimezoneUtc(local, tz) == DateTime(UnixOf(local) - tz)

DateLess(a, b) ==
    \/ a[1] < b[1]
    \/ a[1] = b[1] /\ a[2] < b[2]
    \/ a[1] = b[1] /\ a[2] = b[2] /\ a[3] < b[3]

InstantLess(a, b) == DateLess(a.date, b.date) \/ (a.date = b.date /\ a.sod < b.sod)

----------------------------------------------------------------------------
(* Specification of the tick conversion: two tick counts are drawn and     *)
(* converted.                                                              *)

\* whole seconds since 2001-01-01 of the instants used throughout:
\* 2001-01-01 00:00:00, 2023-12-31 23:59:59, 2024-01-01 00:00:00,
\* 2024-01-31 23:59:59, 2024-02-01 00:00:00 and their neighbours
SampleSeconds ==
    { 0, 1, 86399, 86400, 725759999, 725760000, 725760001, 728438399, 728438400 }

SampleNanos == { 0, 1, 499999999, 500000000, 999999999 }

TickInputs == [s : SampleSeconds, n : SampleNanos]

InitTicks ==
    /\ arg \in [t1 : TickInputs, t2 : TickInputs]
    /\ ret = Idle
    /\ store = <<>>
    /\ env = NoEnv
    /\ now = 0
    /\ _db = NoConnection
    /\ prev = Idle
    /\ call = Idle

Convert ==
    /\ ret = Idle
    /\ ret' = [fn |-> "ticks_to_utc", i1 |-> ticks_to_utc(arg.t1), i2 |-> ticks_to_utc(arg.t2)]
    /\ UNCHANGED <<store, env, now, _db, prev, call, arg>>

NextTicks == Convert

SpecTicks == InitTicks /\ [][NextTicks]_vars

Converted == ret.fn = "ticks_to_utc"

\* C9 (as claimed): for tick counts t1 < t2 the instant derived for t1 is
\* strictly earlier than the instant derived for t2.
C9_StrictlyMonotonic ==
    (Converted /\ TicksLess(arg.t1, arg.t2)) => InstantLess(ret.i1, ret.i2)

\* C9 (amended): the conversion never reverses order, t1 < t2 gives an
\* instant for t1 that is not later than the one for t2, and it is strictly
\* earlier when t2 lies in a later whole second than t1.
C9_OrderPreserving ==
    (Converted /\ TicksLess(arg.t1, arg.t2)) =>
        /\ ~InstantLess(ret.i2, ret.i1)
        /\ arg.t1.s < arg.t2.s => InstantLess(ret.i1, ret.i2)

\* C9 witness: 2024-01-31 23:59:59.999999999 and 2024-02-01 00:00:00 were
\* converted and fall on different dates.
C9_Witness ==
    /\ Converted
    /\ arg.t1 = [s |-> 728438399, n |-> 999999999]
    /\ arg.t2 = [s |-> 728438400, n |-> 0]
    /\ ret.i1 = [date |-> <<2024, 1, 31>>, sod |-> 86399]
    /\ ret.i2 = [date |-> <<2024, 2, 1>>, sod |-> 0]

----------------------------------------------------------------------------
(* Paths and attachments *)

\* a file name is a sequence of one-character strings; a path is a
\* directory and a file name
Lower(c) ==
    CASE c = "H" -> "h" [] c = "E" -> "e" [] c = "I" -> "i" [] c = "C" -> "c"
      [] c = "M" -> "m" [] c = "G" -> "g" [] OTHER -> c

LowerAll(name) == [i \in 1..Len(name) |-> Lower(name[i])]

\* the index of the dot that starts the suffix, or 0: the last dot, unless
\* it is the first or the last character of the name
SuffixDot(name) ==
    LET dots == {i \in 1..Len(name) : name[i] = "."}
        last == IF dots = {} THEN 0 ELSE CHOOSE i \in dots : \A j \in dots : j <= i
    IN  IF last <= 1 \/ last = Len(name) THEN 0 ELSE last

\* Path.suffix
Suffix(name) == IF SuffixDot(name) = 0 THEN <<>> ELSE SubSeq(name, SuffixDot(name), Len(name))

\* Path.stem
Stem(name) == IF SuffixDot(name) = 0 THEN name ELSE SubSeq(name, 1, SuffixDot(name) - 1)

DotHeic == <<".", "h", "e", "i", "c">>

DotJpeg == <<".", "j", "p", "e", "g">>

\* a plausible slip: the suffix is compared without lower()
IsHeicCaseSensitive(name) == Suffix(name) = DotHeic

\* attachment_path.suffix.lower() == '.heic'
IsHeic(name) == LowerAll(Suffix(name)) = DotHeic

Downloads == "~/Downloads"

\* what the file system holds for a source path: "absent", "ok" (the copy or
\* the conversion succeeds) or "fails" (shutil.copy2 raises, magick fails)
FileState(files, path) == files[path.name]

\* convert_heic_to_jpeg: True or False, never an exception
convert_heic_to_jpeg(files, input_heic, output_jpeg) == FileState(files, input_heic) = "ok"

\* copy_and_convert_attachment: an exception, None, or the destination path
copy_and_convert_attachment(files, attachment_path, destination_dir) ==
    IF FileState(files, attachment_path) = "absent"
    THEN [raised |-> TRUE, path |-> None]
    ELSE IF IsHeic(attachment_path.name)
    THEN LET dest_path == [dir |-> destination_dir, name |-> Stem(attachment_path.name) \o DotJpeg]
         IN  IF convert_heic_to_jpeg(files, attachment_path, dest_path)
             THEN [raised |-> FALSE, path |-> Some(dest_path)]
             ELSE [raised |-> FALSE, path |-> None]
    ELSE IF FileState(files, attachment_path) = "ok"
    THEN [raised |-> FALSE, path |-> Some([dir |-> destination_dir, name |-> attachment_path.name])]
    ELSE [raised |-> TRUE, path |-> None]

\* 'image/jpeg' if src_path.suffix.lower() == '.heic' else the declared type
EffectiveMimeType(src_name, declared) == IF IsHeic(src_name) THEN "image/jpeg" ELSE declared

\* the entries of s that satisfy keep, in order
RECURSIVE Keep(_, _)
Keep(s, keep) ==
    IF s = <<>> THEN <<>>
    ELSE (IF keep[1] THEN <<Head(s)>> ELSE <<>>)
            \o Keep(Tail(s), [i \in 1..(Len(s) - 1) |-> keep[i + 1]])

AttachmentsDir == "~/Library/Messages/Attachments"

SourcePath(a) == [dir |-> AttachmentsDir, name |-> a.filename.v]

\* the attachment loop of get_chat_transcript_beta: rows without a file name,
\* files that do not exist, failed conversions and copies that raise are left out
ResolveBeta(files, attachment_rows) ==
    LET try(a) == copy_and_convert_attachment(files, SourcePath(a), Downloads)
        ok(a)  == /\ a.filename.some
                  /\ FileState(files, SourcePath(a)) # "absent"
                  /\ ~try(a).raised
                  /\ try(a).path.some
        kept   == Keep(attachment_rows, [i \in 1..Len(attachment_rows) |-> ok(attachment_rows[i])])
    IN  [i \in 1..Len(kept) |->
            [path |-> try(kept[i]).path.v,
             mime_type |-> EffectiveMimeType(kept[i].filename.v, kept[i].mime_type),
             transfer_name |-> kept[i].transfer_name]]

\* a plausible slip: the missing flag of the attachment is not looked at
ResolveLegacyIgnoresMissing(files, attachments) ==
    LET try(a) == copy_and_convert_attachment(files, SourcePath(a), Downloads)
        ok(a)  == a.filename.some /\ ~try(a).raised /\ try(a).path.some
        kept   == Keep(attachments, [i \in 1..Len(attachments) |-> ok(attachments[i])])
    IN  [i \in 1..Len(kept) |->
            [path |-> try(kept[i]).path.v,
             mime_type |-> EffectiveMimeType(kept[i].filename.v, kept[i].mime_type)]]

\* the attachment loop of get_chat_transcript: attachments flagged missing
\* and attachments whose copy raises or whose conversion fails are left out
ResolveLegacy(files, attachments) ==
    LET try(a) == copy_and_convert_attachment(files, SourcePath(a), Downloads)
        ok(a)  == /\ ~a.missing
                  /\ a.filename.some
                  /\ ~try(a).raised
                  /\ try(a).path.some
        kept   == Keep(attachments, [i \in 1..Len(attachments) |-> ok(attachments[i])])
    IN  [i \in 1..Len(kept) |->
            [path |-> try(kept[i]).path.v,
             mime_type |-> EffectiveMimeType(kept[i].filename.v, kept[i].mime_type)]]

----------------------------------------------------------------------------
(* Phone numbers and handles *)

\* phonenumbers.parse(x, "US"), is_valid_number and format_number(E164):
\* a parse error, an invalid number, or the E.164 form
PhoneParse(x) ==
    CASE x \in {"+14155550100", "4155550100", "(415) 555-0100"} ->
            [kind |-> "valid", e164 |-> "+14155550100"]
      [] x = "+14155550199" -> [kind |-> "valid", e164 |-> "+14155550199"]
      [] x = "12" -> [kind |-> "invalid", e164 |-> ""]
      [] OTHER -> [kind |-> "error", e164 |-> ""]

\* the id column of the handle table, in ROWID order: two spellings of one
\* number, another number, and an e-mail address
HandleTable == <<"+14155550100", "4155550100", "+14155550199", "bob@example.com">>

----------------------------------------------------------------------------
(* The transcript tools *)

RowBefore(a, b) == TicksLess(a.date, b.date) \/ (a.date = b.date /\ a.rowid < b.rowid)

RECURSIVE SortRows(_)
\* ORDER BY m.date ASC over a set of rows (equal dates in ROWID order)
SortRows(rows) ==
    IF rows = {} THEN <<>>
    ELSE LET first == CHOOSE r \in rows : \A q \in rows : ~RowBefore(q, r)
         IN  <<first>> \o SortRows(rows \ {first})

Rows(db) == {db[i] : i \in 1..Len(db)}

\* one row of the SELECT as the loop reads it: the date column rendered by
\* SQLite and the text extracted
RenderRow(r) ==
    [rowid |-> r.rowid,
     date |-> ticks_to_utc(r.date),
     is_from_me |-> r.is_from_me,
     handle_id |-> r.handle,
     text |-> extract_message_text(r.text, r.attributedBody, r.message_summary_info)]

RenderRows(rows) == [i \in 1..Len(rows) |-> RenderRow(rows[i])]

\* the SELECT of get_chat_transcript_beta for one handle id
FetchHandle(db, handle_id) == RenderRows(SortRows({r \in Rows(db) : r.handle = handle_id}))

RECURSIVE FetchAll(_, _)
\* the loop over handle_numbers: the rows of each handle appended in turn
FetchAll(db, handle_numbers) ==
    IF handle_numbers = <<>> THEN <<>>
    ELSE FetchHandle(db, Head(handle_numbers)) \o FetchAll(db, Tail(handle_numbers))

\* the handle ids whose E.164 form equals formatted_number, in table order
MatchingHandles(formatted_number) ==
    Keep(HandleTable,
         [i \in 1..Len(HandleTable) |->
            /\ PhoneParse(HandleTable[i]).kind = "valid"
            /\ PhoneParse(HandleTable[i]).e164 = formatted_number])

\* a plausible slip: the end date is treated as exclusive
in_range_exclusive_end(msg_date, start_date, end_date) ==
    /\ ~(start_date.some /\ DateLess(msg_date, start_date.v))
    /\ ~(end_date.some /\ ~DateLess(msg_date, end_date.v))

\* the two "continue" tests of the filter loop
in_range(msg_date, start_date, end_date) ==
    /\ ~(start_date.some /\ DateLess(msg_date, start_date.v))
    /\ ~(end_date.some /\ DateLess(end_date.v, msg_date))

DefaultDays == 7

\* a plausible slip: "or" instead of "and" in the test for the default range
EffectiveRangeEither(clock, start_date, end_date) ==
    IF ~start_date.some \/ ~end_date.some
    THEN [start |-> Some(DateTime(clock - DefaultDays * SecondsPerDay).date),
          end   |-> Some(DateTime(clock).date)]
    ELSE [start |-> start_date, end |-> end_date]

\* the default range of get_chat_transcript_beta: taken from the clock when
\* neither start_date nor end_date is given
EffectiveRange(clock, start_date, end_date) ==
    IF ~start_date.some /\ ~end_date.some
    THEN [start |-> Some(DateTime(clock - DefaultDays * SecondsPerDay).date),
          end   |-> Some(DateTime(clock).date)]
    ELSE [start |-> start_date, end |-> end_date]

AttachmentsOf(db, rowid) == db[rowid].attachments

ErrorResult(error) == [raised |-> FALSE, messages |-> <<>>, total_count |-> 0, error |-> error]

\* the date filter of get_chat_transcript_beta over the fetched messages
BetaFilter(messages, range) ==
    Keep(messages, [i \in 1..Len(messages) |->
                      in_range(messages[i].date.date, range.start, range.end)])

\* the dictionary appended for one message
BetaEntry(msg, attachments) ==
    [text |-> msg.text,
     date |-> msg.date,
     is_from_me |-> msg.is_from_me,
     handle |-> msg.handle_id,
     has_attachments |-> attachments # <<>>,
     attachments |-> attachments,
     rowid |-> msg.rowid]

BetaEntries(db, files, kept) ==
    [i \in 1..Len(kept) |->
        BetaEntry(kept[i], ResolveBeta(files, AttachmentsOf(db, kept[i].rowid)))]

TranscriptResult(filtered_messages) ==
    [raised |-> FALSE, messages |-> filtered_messages,
     total_count |-> Len(filtered_messages), error |-> "none"]

\* get_chat_transcript_beta once the handles are matched
BetaTranscript(db, files, clock, handle_numbers, start_date, end_date) ==
    IF handle_numbers = <<>> THEN ErrorResult("No matching handles found")
    ELSE TranscriptResult(
            BetaEntries(db, files,
                        BetaFilter(FetchAll(db, handle_numbers),
                                   EffectiveRange(clock, start_date, end_date))))

\* get_chat_transcript_beta once the phone number is parsed
BetaParsed(db, files, clock, parsed, start_date, end_date) ==
    IF parsed.kind = "error" THEN ErrorResult("Invalid phone number format")
    ELSE IF parsed.kind = "invalid" THEN ErrorResult("Invalid phone number")
    ELSE BetaTranscript(db, files, clock, MatchingHandles(parsed.e164), start_date, end_date)

get_chat_transcript_beta(db, files, clock, phone_number, start_date, end_date) ==
    BetaParsed(db, files, clock, PhoneParse(phone_number), start_date, end_date)

\* db.Messages("person", phone_number, numbers=[phone_number]).message_list:
\* the messages of the handle spelled exactly like the E.164 number, by date
LibraryMessages(db, tz, number) ==
    LET rows == SortRows({r \in Rows(db) : r.handle = number})
    IN  [i \in 1..Len(rows) |->
            [rowid |-> rows[i].rowid,
             date |-> LocalDateTime(rows[i].date, tz),
             is_from_me |-> rows[i].is_from_me,
             text |-> rows[i].text,
             attachments |-> rows[i].attachments]]

\* rowid is not part of the dictionary the tool returns; it is kept to name
\* the message a returned entry stands for
get_chat_transcript(db, files, tz, phone_number, start_date, end_date) ==
    LET parsed == PhoneParse(phone_number)
        messages == LibraryMessages(db, tz, parsed.e164)
        msg_dt(i) == AsTimezoneUtc(messages[i].date, tz)
        kept == Keep(messages, [i \in 1..Len(messages) |->
                                  in_range(msg_dt(i).date, start_date, end_date)])
        filtered_messages ==
            [i \in 1..Len(kept) |->
                LET attachments == ResolveLegacy(files, kept[i].attachments)
                IN  [text |-> kept[i].text,
                     date |-> AsTimezoneUtc(kept[i].date, tz),
                     is_from_me |-> kept[i].is_from_me,
                     has_attachments |-> attachments # <<>>,
                     attachments |-> attachments,
                     rowid |-> kept[i].rowid]]
    IN  IF parsed.kind # "valid"
        THEN [raised |-> TRUE, messages |-> <<>>, total_count |-> 0, error |-> "ValueError"]
        ELSE [raised |-> FALSE, messages |-> filtered_messages,
              total_count |-> Len(filtered_messages), error |-> "none"]

\* db.chats.get_chats().split('\n'): one line per handle that has messages
list_conversations(db) ==
    LET conversation_list ==
            Keep(HandleTable, [i \in 1..Len(HandleTable) |->
                                 \E r \in Rows(db) : r.handle = HandleTable[i]])
    IN  [raised |-> FALSE, conversations |-> conversation_list,
         total_count |-> Len(conversation_list)]

----------------------------------------------------------------------------
(* Tool calls as actions *)

Request(phone_number, start_date, end_date) ==
    [phone_number |-> phone_number, start_date |-> start_date, end_date |-> end_date]

\* prev keeps the call before the latest one when the latest call repeats
\* its tool and its arguments
Remember(fn, a) == IF call.fn = fn /\ call.args = a THEN call ELSE Idle

CallBeta(a) ==
    /\ call' = [fn |-> "get_chat_transcript_beta", args |-> a, at |-> now,
                db |-> get_connection(_db),
                out |-> get_chat_transcript_beta(store, env.files, now, a.phone_number,
                                                 a.start_date, a.end_date)]
    /\ prev' = Remember("get_chat_transcript_beta", a)
    /\ _db' = get_connection(_db)
    /\ UNCHANGED <<store, env, now, arg, ret>>

\* get_chat_transcript raises ValueError for an invalid phone number before
\* it asks for the connection
CallLegacy(a) ==
    /\ call' = [fn |-> "get_chat_transcript", args |-> a, at |-> now,
                db |-> IF PhoneParse(a.phone_number).kind = "valid"
                       THEN get_connection(_db) ELSE NoConnection,
                out |-> get_chat_transcript(store, env.files, env.tz, a.phone_number,
                                            a.start_date, a.end_date)]
    /\ prev' = Remember("get_chat_transcript", a)
    /\ _db' = IF PhoneParse(a.phone_number).kind = "valid" THEN get_connection(_db) ELSE _db
    /\ UNCHANGED <<store, env, now, arg, ret>>

NoRequest == Request("", None, None)

ListConversations ==
    /\ call' = [fn |-> "list_conversations", args |-> NoRequest, at |-> now,
                db |-> get_connection(_db),
                out |-> list_conversations(store)]
    /\ prev' = Remember("list_conversations", NoRequest)
    /\ _db' = get_connection(_db)
    /\ UNCHANGED <<store, env, now, arg, ret>>

HalfDay == 12 * 3600

\* 2024-02-07 00:00:00 UTC
Clock0 == Epoch2001 + 728438400 + (6 * SecondsPerDay)

MaxElapsed == 2

\* time passes between two calls
Tick ==
    /\ now < Clock0 + (MaxElapsed * HalfDay)
    /\ now' = now + HalfDay
    /\ UNCHANGED <<store, env, _db, prev, call, arg, ret>>

----------------------------------------------------------------------------
(* Specification of the transcript tools over stores without attachments *)

MaxRows == 2

PlainRow == [text |-> Some(Hello), attributedBody |-> None, message_summary_info |-> NoSummary]

RichRow ==
    [text |-> None,
     attributedBody |-> Some(Blob(TRUE, StreamHead, <<104, 105>>, StreamTail, FALSE)),
     message_summary_info |-> NoSummary]

\* 2023-12-31 23:59:59.999999999, 2024-01-01 00:00:00,
\* 2024-01-31 23:59:59.999999999 and 2024-02-01 00:00:00
RowTicks ==
    { [s |-> 725759999, n |-> 999999999], [s |-> 725760000, n |-> 0],
      [s |-> 728438399, n |-> 999999999], [s |-> 728438400, n |-> 0] }

RowHandles == {"+14155550100", "4155550100", "+14155550199"}

RowInputs == [handle : RowHandles, date : RowTicks, content : {PlainRow}]

\* rows get their ROWID in order of arrival: dates do not decrease with it
Chronological(f) == \A i \in 1..(Len(f) - 1) : ~TicksLess(f[i + 1].date, f[i].date)

MakeStore(f, atts) ==
    [i \in 1..Len(f) |->
        [rowid |-> i, handle |-> f[i].handle, date |-> f[i].date, is_from_me |-> FALSE,
         text |-> f[i].content.text, attributedBody |-> f[i].content.attributedBody,
         message_summary_info |-> f[i].content.message_summary_info,
         attachments |-> atts[i]]]

\* the offset from UTC of the system time zone, in seconds
TimeZones == {-28800}

Requests ==
    { Request("(415) 555-0100", s, e) : s \in {None, Some(<<2024, 1, 1>>)},
                                        e \in {None, Some(<<2024, 1, 31>>)} }
        \cup { Request("12", None, None) }

Init ==
    /\ \E n \in 0..MaxRows : \E f \in [1..n -> RowInputs] :
            /\ Chronological(f)
            /\ store = MakeStore(f, [i \in 1..n |-> <<>>])
    /\ \E tz \in TimeZones : env = [files |-> <<>>, tz |-> tz]
    /\ now = Clock0
    /\ _db = NoConnection
    /\ prev = Idle
    /\ call = Idle
    /\ arg = Idle
    /\ ret = Idle

Next ==
    \/ \E a \in Requests : CallBeta(a)
    \/ \E a \in Requests : CallLegacy(a)
    \/ ListConversations
    \/ Tick

Spec == Init /\ [][Next]_vars

----------------------------------------------------------------------------
(* Properties of the transcript tools *)

Transcript(c) == c.fn \in {"get_chat_transcript", "get_chat_transcript_beta"}

\* a transcript call that got as far as the store and returned a transcript
Returned(c) == Transcript(c) /\ ~c.out.raised /\ c.out.error = "none"

\* the ROWIDs of the returned messages, in the order returned
Emitted(c) == [i \in 1..Len(c.out.messages) |-> c.out.messages[i].rowid]

EmittedSet(c) == {c.out.messages[i].rowid : i \in 1..Len(c.out.messages)}

\* the handle ids a call reads messages of
HandlesRead(c) ==
    IF c.fn = "get_chat_transcript_beta"
    THEN {h \in RowHandles : PhoneParse(h).e164 = PhoneParse(c.args.phone_number).e164}
    ELSE {PhoneParse(c.args.phone_number).e164}

\* the UTC calendar date of a row of the store
UtcDate(r) == CivilFromDays((r.date.s + Epoch2001) \div SecondsPerDay)

NotBefore(d, bound) == ~DateLess(d, bound)

NotAfter(d, bound) == ~DateLess(bound, d)

\* the range a call filters by: its arguments, or the default range the beta
\* tool takes from the clock when both are omitted
RangeOf(c) ==
    IF c.fn = "get_chat_transcript_beta"
    THEN EffectiveRange(c.at, c.args.start_date, c.args.end_date)
    ELSE [start |-> c.args.start_date, end |-> c.args.end_date]

\* C1 (as claimed): the messages returned by get_chat_transcript_beta are in
\* ascending timestamp order: no message is dated later than one after it.
C1_AscendingOrder ==
    (call.fn = "get_chat_transcript_beta") =>
        \A i, j \in 1..Len(call.out.messages) :
            i < j => ~InstantLess(call.out.messages[j].date, call.out.messages[i].date)

\* C4: date filtering is inclusive at both bounds and compares UTC calendar
\* dates: of the rows a transcript call reads, exactly those are returned
\* whose UTC date is not before the start of the range in force (when there
\* is one) and not after its end (when there is one), each once.
C4_InclusiveUtcRange ==
    Returned(call) =>
        /\ EmittedSet(call) =
              { r.rowid : r \in { q \in Rows(store) :
                    /\ q.handle \in HandlesRead(call)
                    /\ RangeOf(call).start.some => NotBefore(UtcDate(q), RangeOf(call).start.v)
                    /\ RangeOf(call).end.some => NotAfter(UtcDate(q), RangeOf(call).end.v) } }
        /\ Cardinality(EmittedSet(call)) = Len(call.out.messages)
        /\ \A i \in 1..Len(call.out.messages) :
              call.out.messages[i].date.date = UtcDate(store[call.out.messages[i].rowid])

\* C4 witness: with the range 2024-01-01 .. 2024-01-31 a message of
\* 2024-01-01 00:00:00Z and one of 2024-01-31 23:59:59Z are returned by
\* get_chat_transcript, and with a message of 2024-02-01 in the store
\* get_chat_transcript_beta returns only the one of 2024-01-31 23:59:59Z.
C4_Witness ==
    /\ Returned(call)
    /\ call.args.start_date = Some(<<2024, 1, 1>>)
    /\ call.args.end_date = Some(<<2024, 1, 31>>)
    /\ Len(store) = 2
    /\ store[1].handle = "+14155550100" /\ store[2].handle = "+14155550100"
    /\ \/ /\ call.fn = "get_chat_transcript"
          /\ store[1].date = [s |-> 725760000, n |-> 0]
          /\ store[2].date = [s |-> 728438399, n |-> 999999999]
          /\ Emitted(call) = <<1, 2>>
          /\ call.out.messages[2].date = [date |-> <<2024, 1, 31>>, sod |-> 86399]
       \/ /\ call.fn = "get_chat_transcript_beta"
          /\ store[1].date = [s |-> 728438399, n |-> 999999999]
          /\ store[2].date = [s |-> 728438400, n |-> 0]
          /\ Emitted(call) = <<1>>

\* C5 (as claimed): with no start and no end argument every transcript tool
\* returns exactly the messages it reads whose UTC date lies between the
\* date seven days before the clock reading and the date of the clock
\* reading, both included.
C5_DefaultLastSevenDays ==
    (Returned(call) /\ ~call.args.start_date.some /\ ~call.args.end_date.some) =>
        EmittedSet(call) =
            { r.rowid : r \in { q \in Rows(store) :
                /\ q.handle \in HandlesRead(call)
                /\ NotBefore(UtcDate(q), CivilFromDays((call.at \div SecondsPerDay) - DefaultDays))
                /\ NotAfter(UtcDate(q), CivilFromDays(call.at \div SecondsPerDay)) } }

SameTranscript(a, b) ==
    /\ a.out.total_count = b.out.total_count
    /\ Emitted(a) = Emitted(b)

----------------------------------------------------------------------------
(* Specification of the transcript tools over messages with attachments *)

ImgHeic == <<"I", "M", "G", ".", "H", "e", "I", "C">>

ImgJpeg == <<"I", "M", "G", ".", "j", "p", "e", "g">>

ABHeic == <<"a", ".", "b", ".", "h", "e", "i", "c">>

ABJpeg == <<"a", ".", "b", ".", "j", "p", "e", "g">>

PicPng == <<"p", "i", "c", ".", "p", "n", "g">>

FileNames == {ImgHeic, ABHeic, PicPng}

\* the mime_type column of an attachment with this file name
DeclaredType(name) == IF name = PicPng THEN "image/png" ELSE "image/heic"

\* an attachment of a message: the filename, mime_type and transfer_name
\* columns, and the missing flag imessagedb puts on its attachment object
\* (the SELECT of get_chat_transcript_beta does not see that flag)
Attachment(filename, missing) ==
    [filename |-> filename,
     mime_type |-> IF filename.some THEN DeclaredType(filename.v) ELSE "",
     transfer_name |-> filename,
     missing |-> missing]

AttachmentInputs ==
    { Attachment(Some(n), FALSE) : n \in FileNames }
        \cup { Attachment(Some(PicPng), TRUE), Attachment(None, FALSE) }

MaxAtts == 2

FileStates == {"absent", "ok", "fails"}

AttachRequests == { Request("+14155550100", None, None) }

\* two messages of one handle, of 2024-01-31 23:59:59 and 2024-02-01 00:00:00
AttachRows ==
    << [handle |-> "+14155550100", date |-> [s |-> 728438399, n |-> 999999999], content |-> PlainRow],
       [handle |-> "+14155550100", date |-> [s |-> 728438400, n |-> 0], content |-> RichRow] >>

InitAttach ==
    /\ \E k \in 0..MaxAtts : \E first \in [1..k -> AttachmentInputs] :
        \E second \in {<<>>, <<Attachment(Some(PicPng), FALSE)>>} :
            store = MakeStore(AttachRows, <<first, second>>)
    /\ \E files \in [FileNames -> FileStates], tz \in TimeZones :
            env = [files |-> files, tz |-> tz]
    /\ now = Clock0
    /\ _db = NoConnection
    /\ prev = Idle
    /\ call = Idle
    /\ arg = Idle
    /\ ret = Idle

NextAttach ==
    \/ \E a \in AttachRequests : CallBeta(a)
    \/ \E a \in AttachRequests : CallLegacy(a)

SpecAttach == InitAttach /\ [][NextAttach]_vars

----------------------------------------------------------------------------
(* Properties of the attachments of a transcript *)

\* the attachments of a row that a tool can deliver: the file is there and
\* its copy or conversion works, and get_chat_transcript, which reads the
\* missing flag, finds it unset
Deliverable(fn, a) ==
    /\ a.filename.some
    /\ env.files[a.filename.v] = "ok"
    /\ fn = "get_chat_transcript" => ~a.missing

Delivered(fn, rowid) ==
    Keep(store[rowid].attachments,
         [i \in 1..Len(store[rowid].attachments) |-> Deliverable(fn, store[rowid].attachments[i])])

\* the file names used here that carry the .heic extension in some letter
\* case, and the name each is expected under in the destination directory
HeicNames == {ImgHeic, ABHeic}

ExpectedName(name) ==
    IF name = ImgHeic THEN ImgJpeg ELSE IF name = ABHeic THEN ABJpeg ELSE name

C7_HeicBecomesJpeg ==
    Transcript(call) =>
        \A i \in 1..Len(call.out.messages) :
            LET m == call.out.messages[i]
                d == Delivered(call.fn, m.rowid)
            IN  /\ Len(m.attachments) = Len(d)
                /\ \A k \in 1..Len(d) :
                      /\ m.attachments[k].path.dir = Downloads
                      /\ d[k].filename.v \in HeicNames =>
                            /\ m.attachments[k].path.name = ExpectedName(d[k].filename.v)
                            /\ m.attachments[k].mime_type = "image/jpeg"
                      /\ d[k].filename.v \notin HeicNames =>
                            /\ m.attachments[k].path.name = d[k].filename.v
                            /\ m.attachments[k].mime_type = d[k].mime_type

\* C7 witness: get_chat_transcript_beta converted IMG.HeIC to IMG.jpeg, left
\* out a.b.heic whose conversion failed, and copied pic.png of the next message.
C7_Witness ==
    /\ call.fn = "get_chat_transcript_beta"
    /\ store[1].attachments = <<Attachment(Some(ImgHeic), FALSE), Attachment(Some(ABHeic), FALSE)>>
    /\ store[2].attachments = <<Attachment(Some(PicPng), FALSE)>>
    /\ env.files = (ImgHeic :> "ok" @@ ABHeic :> "fails" @@ PicPng :> "ok")
    /\ call.out.messages[1].attachments =
          << [path |-> [dir |-> Downloads, name |-> ImgJpeg], mime_type |-> "image/jpeg",
              transfer_name |-> Some(ImgHeic)] >>
    /\ call.out.messages[2].attachments =
          << [path |-> [dir |-> Downloads, name |-> PicPng], mime_type |-> "image/png",
              transfer_name |-> Some(PicPng)] >>

----------------------------------------------------------------------------
(* Specification of the store connection across tool calls *)

Tools == {"get_chat_transcript", "get_chat_transcript_beta", "list_conversations"}

\* what a tool leaves when FileNotFoundError is raised
FileNotFound == [raised |-> TRUE, messages |-> <<>>, total_count |-> 0, error |-> "FileNotFoundError"]

\* a tool call made while chat.db is not there: "if not DB_PATH.exists()"
\* raises before MessageDBConnection is entered (in get_chat_transcript
\* after the phone number is validated), so _db is not touched
StoreUnavailable(fn, a) ==
    /\ fn = "get_chat_transcript" => PhoneParse(a.phone_number).kind = "valid"
    /\ call' = [fn |-> fn, args |-> a, at |-> now, db |-> NoConnection, out |-> FileNotFound]
    /\ prev' = Remember(fn, a)
    /\ UNCHANGED <<store, env, now, _db, arg, ret>>

NextConn ==
    \/ \E a \in Requests : CallBeta(a)
    \/ \E a \in Requests : CallLegacy(a)
    \/ ListConversations
    \/ \E fn \in Tools \ {"list_conversations"} : \E a \in Requests : StoreUnavailable(fn, a)
    \/ StoreUnavailable("list_conversations", NoRequest)

SpecConn == Init /\ [][NextConn]_vars

\* a call that got a connection from MessageDBConnection
Obtained(c) == c # Idle /\ c.db # NoConnection

\* what holds in every state of the connection
ConnectionHeld ==
    /\ call = Idle => _db = NoConnection
    /\ (call # Idle /\ ~call.out.raised) => Obtained(call)
    /\ Obtained(call) => call.db = _db
    /\ (Obtained(prev) /\ Obtained(call)) => prev.db = call.db

\* what holds of every step
ConnectionKept ==
    /\ _db # NoConnection => _db' = _db
    /\ (_db = NoConnection /\ _db' # NoConnection) => (Obtained(call') /\ call'.db = _db')

\* C11: across any sequence of tool calls the store connection is opened
\* lazily, by the first call that gets as far as asking for it, and at most
\* once after a successful open: no connection is held before a call, every
\* call that returns normally obtained the connection held, a call and its
\* repetition obtained the same connection, and once a connection is held
\* no step closes or replaces it.
C11_SingleLazyConnection == []ConnectionHeld /\ [][ConnectionKept]_vars

\* C11 witness: a call and its repetition obtained the same connection,
\* which is the one held
C11_Witness ==
    /\ call.fn = "list_conversations"
    /\ Obtained(prev)
    /\ Obtained(call)
    /\ prev.db = call.db
    /\ call.db = _db

====
